---- MODULE Spec2Model ----
(***************************************************************************)
(* LMeals backend: the recipe acquisition pipeline (/scrape, /scrape-ai),  *)
(* the image-candidate lifecycle (upload, finalize, deferred cleanup) and  *)
(* the background tasks, as a state machine over the recipe table, the two *)
(* image directories and the queue of background tasks.                    *)
(***************************************************************************)
EXTENDS Integers, Sequences, FiniteSets, TLC

\* ---------------------------------------------------------------- bounds
\* uuid4 values drawn in one behaviour (each names one download, upload or capture)
MaxIds == 3
\* rows of the recipes table
MaxRecipes == 2
\* frame offsets tried by one capture
MaxFrames == 3
\* background tasks waiting at one time
MaxTasks == 2
\* audio chunks of one over-sized download
MaxChunks == 2
\* requests served in one behaviour
MaxRequests == 2
\* handlers and background tasks in flight at one time
MaxThreads == 2

VARIABLES
    db,              \* recipes table: sequence of rows, a row's id is its index
    images_dir,      \* file names in IMAGES_DIR (static/images/recipes)
    candidates_dir,  \* file names in IMAGES_DIR/candidates
    tasks,           \* background tasks added and not yet run
    done,            \* the background task that ran last
    known,           \* image paths handed to the client in responses so far
    nextId,          \* the next uuid4 value
    resp,            \* the last response sent; resp.seq counts the requests served
    obs,             \* what the last request did on its way (its trace)
    threads,         \* frames of the handlers and tasks that are under way
    unique_source_url  \* whether the recipes table has its unique index on source_url

vars == <<db, images_dir, candidates_dir, tasks, done, known, nextId, resp, obs, threads,
          unique_source_url>>

\* ------------------------------------------------------------ file names
\* A file name: k is its pattern, u its uuid, t the frame offset (0 when the
\* pattern has none).
\*   plain            {u}.jpg                 assets.download_image
\*   upload           upload_{u}.jpg          upload_temp_image
\*   frame            {u}_frame_{t}s.jpg      a captured video frame
\*   selected_t       {u}_selected_{t}s.jpg   finalize_scrape of a frame
\*   selected         {u}_selected.jpg        finalize_multi_scrape of a frame or plain
\*   upload_selected  upload_{u}_selected.jpg finalize_multi_scrape of an upload
Name(k, u, t) == [k |-> k, u |-> u, t |-> t]

\* A path as the API carries it: dir "cand" is images/recipes/candidates/,
\* "perm" is images/recipes/, "http" a remote URL (u tells which), "none" None.
Path(d, n) == [dir |-> d, k |-> n.k, u |-> n.u, t |-> n.t]
NoPath == [dir |-> "none", k |-> "none", u |-> 0, t |-> 0]
Remote(r) == [dir |-> "http", k |-> "remote", u |-> r, t |-> 0]
Cand(n) == Path("cand", n)
Perm(n) == Path("perm", n)

\* os.path.basename
basename(p) == Name(p.k, p.u, p.t)

\* the remote images a request can meet
ThumbnailUrl == Remote(1)
ScrapedImageUrl == Remote(2)
LibraryImageUrl == Remote(3)

\* "candidates/" in path
InCandidates(p) == p.dir = "cand"

\* ----------------------------------------------------------- assets.py
\* assets.delete_image on the permanent directory's content: the path's
\* basename is joined with IMAGES_DIR, whatever directory the path names.
delete_image(p, imgs) ==
    IF p = NoPath \/ p.dir = "http" THEN imgs ELSE imgs \ {basename(p)}

\* assets.download_image: None for no url or a failed fetch, the url itself when
\* it already starts with images/recipes/, else a new file {uuid}.jpg.
\* ok: whether the fetch succeeds. Gives the returned path.
download_image_path(url, ok, id) ==
    IF url = NoPath THEN NoPath
    ELSE IF url.dir \in {"cand", "perm"} THEN url
    ELSE IF ok THEN Perm(Name("plain", id, 0))
    ELSE NoPath

\* whether download_image writes a new file
download_image_writes(url, ok) ==
    url # NoPath /\ url.dir = "http" /\ ok

\* -------------------------------------------------- deferred cleanup task
\* delayed_cleanup_files: every listed file but the falsy ones and keep_file
\* goes through delete_image.
CleanupTargets(files, keep) ==
    {f \in files : f # NoPath /\ ~(keep # NoPath /\ f = keep)}

RECURSIVE DeleteAll(_, _)
DeleteAll(fs, imgs) ==
    IF fs = {} THEN imgs
    ELSE LET f == CHOOSE g \in fs : TRUE
         IN DeleteAll(fs \ {f}, delete_image(f, imgs))

delayed_cleanup_files(files, keep, imgs) ==
    DeleteAll(CleanupTargets(files, keep), imgs)

\* ------------------------------------------------------------------ urls
\* A request URL: its host and its path, as far as the platform test reads them.
Urls == {[host |-> "site", path |-> "plain"],
         [host |-> "youtube.com", path |-> "plain"]}

\* urls that tell the host from the rest, and one spelling from another: the
\* platform's host in upper case, and the platform's name in the query only
UpperHostUrl == [host |-> "YOUTUBE.COM", path |-> "plain"]
PathOnlyUrl == [host |-> "site", path |-> "youtube.com"]

\* str.lower of a host
lower(h) == IF h = "YOUTUBE.COM" THEN "youtube.com" ELSE h

\* scrape_ai: any(domain in url for domain in [...]), a substring test on the
\* whole URL as written (ScrapeRequest.url is a plain str).
is_video_audio(url) == url.host = "youtube.com" \/ url.path = "youtube.com"

\* ------------------------------------------------------- recipes table
\* A row of the recipes table with its ingredient rows: ningr ingredient rows
\* stored, of the wanted ingredients the recipe came with. template: whether
\* instruction_template is set; writes: how many times it was written.
Row(image_url, source_url, wanted, ningr, has_instr) ==
    [image_url |-> image_url, source_url |-> source_url, wanted |-> wanted,
     ningr |-> ningr, has_instr |-> has_instr, template |-> FALSE, writes |-> 0]

\* models.Recipe.source_url is declared unique=True, index=True: a table made
\* from the model has the unique index ix_recipes_source_url, and the first
\* commit of a row whose source_url is already there raises IntegrityError. The
\* migration d284a123f456 replaces that index by a plain one: a table migrated
\* to head takes the row. persist: "invalid" when RecipeCreate(**recipe_data)
\* raised before, else what the database does ("ok", or the commit that fails).
commit_outcome(rows, rec, persist) ==
    IF persist = "invalid" THEN "invalid"
    ELSE IF unique_source_url /\ \E i \in DOMAIN rows : rows[i].source_url = rec.source_url
    THEN "IntegrityError"
    ELSE persist

\* crud.create_recipe: the recipe row is committed first, its ingredient rows
\* in a second commit. outcome: "ok", or the commit that raises.
\* (a create_recipe that defers: the table is left as it is)
create_recipe_nothing(rows, rec, outcome) ==
    rows

create_recipe(rows, rec, outcome) ==
    CASE outcome = "ok" ->
           Append(rows, Row(rec.image_url, rec.source_url, rec.ningr, rec.ningr, rec.has_instr))
      [] outcome = "commit2" ->
           Append(rows, Row(rec.image_url, rec.source_url, rec.ningr, 0, rec.has_instr))
      [] OTHER -> rows

PersistOutcomes == {"ok", "commit1", "commit2"}

\* ---------------------------------------------------- background tasks
TemplateTask(id) ==
    [type |-> "template", recipe |-> id, files |-> {}, keep |-> NoPath, origin |-> "create"]
CleanupTask(files, keep, origin) ==
    [type |-> "cleanup", recipe |-> 0, files |-> files, keep |-> keep, origin |-> origin]
UpgradeTask(path) ==
    [type |-> "upgrade", recipe |-> 0, files |-> {path}, keep |-> NoPath, origin |-> "finalize_scrape"]
\* the task read_recipe adds while the template is absent
ReadTemplateTask(id) ==
    [type |-> "template", recipe |-> id, files |-> {}, keep |-> NoPath, origin |-> "read"]
NoTask == [type |-> "none", recipe |-> 0, files |-> {}, keep |-> NoPath, origin |-> "none"]

\* ------------------------------------------------------------ responses
NoResp ==
    [seq |-> 0, op |-> "none", status |-> "none", code |-> 0, reason |-> "",
     recipe |-> 0, image_candidates |-> <<>>, drafts |-> <<>>, created_count |-> 0]

\* the response of the request that follows the one answered by r
Response(r, op, status, code, reason) ==
    [seq |-> r.seq + 1, op |-> op, status |-> status, code |-> code, reason |-> reason,
     recipe |-> 0, image_candidates |-> <<>>, drafts |-> <<>>, created_count |-> 0]

NoObs ==
    [batch |-> 0, copies |-> 0, assigned |-> <<>>, video |-> FALSE, tiers |-> <<>>, source |-> "none", raised |-> "none",
     engine |-> [t |-> "none"], engine_called |-> FALSE, branch |-> "none",
     lib |-> "none", audio |-> "none", created |-> 0,
     chosen |-> NoPath, existed |-> FALSE, peer |-> <<>>, temp |-> {},
     capture |-> "none", clip |-> [tried |-> <<>>, file |-> "none", ok |-> FALSE,
                                    files |-> <<>>],
     clip_left |-> "none", outcomes |-> <<>>, coerced |-> <<>>, cand_files |-> {},
     au |-> [stage |-> "none", size |-> 0, total_ms |-> 0, chunks |-> <<>>,
             texts |-> <<>>, transcript |-> <<>>], url |-> [host |-> "none", path |-> "none"]]

Range(s) == {s[i] : i \in DOMAIN s}

\* --------------------------------------------------- upload_temp_image
\* POST /upload-temp-image: the file is written as candidates/upload_{uuid}{ext}.
upload_temp_image(outcome) ==
    LET n == Name("upload", nextId, 0) IN
    /\ resp.seq < MaxRequests
    /\ nextId <= MaxIds
    /\ nextId' = nextId + 1
    /\ candidates_dir' = IF outcome = "open_fails" THEN candidates_dir
                         ELSE candidates_dir \cup {n}
    /\ known' = IF outcome = "ok" THEN known \cup {Cand(n)} ELSE known
    /\ resp' = IF outcome = "ok"
               THEN [Response(resp, "upload", "success", 200, "") EXCEPT
                        !.image_candidates = <<Cand(n)>>]
               ELSE Response(resp, "upload", "error", 500, "str(e)")
    /\ obs' = NoObs
    /\ UNCHANGED <<db, images_dir, tasks, done, threads, unique_source_url>>

\* ------------------------------------------------------ cleanup-images
\* POST /cleanup-images: queues delayed_cleanup_files(files_to_delete, keep_file).
cleanup_images_endpoint(files, keep) ==
    /\ resp.seq < MaxRequests
    /\ tasks' = tasks \cup {CleanupTask(files, keep, "cleanup_images")}
    /\ Cardinality(tasks') <= MaxTasks
    /\ resp' = Response(resp, "cleanup_images", "queued", 200, "")
    /\ obs' = NoObs
    /\ UNCHANGED <<db, images_dir, candidates_dir, done, known, nextId, threads, unique_source_url>>

\* ------------------------------------------------------ finalize-scrape
\* filename.replace("upload_", "").replace("frame_", "selected_")
dest_filename(n) ==
    CASE n.k = "upload" -> Name("plain", n.u, 0)
      [] n.k = "frame" -> Name("selected_t", n.u, n.t)
      [] OTHER -> n

\* re.search(r'_frame_(\d+(\.\d+)?)s', filename)
is_frame_name(n) == n.k = "frame"

\* shutil.move(source_path, dest_path) on the two directories
move_candidate(n, cands) ==
    cands \ {n}

\* POST /finalize-scrape. mv: whether shutil.move succeeds.
finalize_scrape(recipe_id, chosen_image, candidates_to_cleanup, mv) ==
    IF recipe_id \notin DOMAIN db
    THEN /\ resp.seq < MaxRequests
         /\ resp' = Response(resp, "finalize_scrape", "error", 404, "Recipe not found")
         /\ obs' = [NoObs EXCEPT !.chosen = chosen_image]
         /\ UNCHANGED <<db, images_dir, candidates_dir, tasks, done, known, nextId, threads, unique_source_url>>
    ELSE
    LET filename == basename(chosen_image)
        exists == InCandidates(chosen_image) /\ filename \in candidates_dir
        moved == exists /\ mv
        final_image_path == IF moved THEN Perm(dest_filename(filename)) ELSE chosen_image
        upgrade == IF moved /\ is_frame_name(filename)
                   THEN {UpgradeTask(final_image_path)} ELSE {}
        cleanup == IF candidates_to_cleanup # {}
                   THEN {CleanupTask(candidates_to_cleanup, chosen_image, "finalize_scrape")}
                   ELSE {}
    IN
    /\ resp.seq < MaxRequests
    /\ candidates_dir' = IF moved THEN move_candidate(filename, candidates_dir)
                         ELSE candidates_dir
    /\ images_dir' = IF moved THEN images_dir \cup {dest_filename(filename)} ELSE images_dir
    /\ db' = [db EXCEPT ![recipe_id].image_url = final_image_path]
    /\ tasks' = tasks \cup upgrade \cup cleanup
    /\ Cardinality(tasks') <= MaxTasks
    /\ resp' = [Response(resp, "finalize_scrape", "success", 200, "") EXCEPT
                    !.recipe = recipe_id]
    /\ obs' = [NoObs EXCEPT !.chosen = chosen_image, !.existed = exists]
    /\ UNCHANGED <<done, known, nextId, threads, unique_source_url>>

\* ------------------------------------------------ finalize-multi-scrape
\* The permanent name of an assigned candidate:
\*   prefix = name before '_frame_', else name before the first '.'
\*   new_filename = f"{prefix}_selected.{ext}"
new_filename(n) ==
    CASE n.k = "upload" -> Name("upload_selected", n.u, 0)
      [] n.k \in {"frame", "plain"} -> Name("selected", n.u, 0)
      [] OTHER -> Name("selected", n.u, n.t)

\* One recipe of the batch: its image assignment is resolved (a candidate is
\* copied with shutil.copy2, which raises when the source is missing), then the
\* recipe is created. item: [assigned, create], create being "invalid" when
\* RecipeCreate(**recipe_dict) raises, else the outcome of crud.create_recipe.
\* st: [db, images, tasks, created, failed, raised, copies].
multi_image_url(assigned, cands) ==
    IF assigned # NoPath /\ InCandidates(assigned)
    THEN IF basename(assigned) \in cands
         THEN Perm(new_filename(basename(assigned))) ELSE NoPath
    ELSE assigned

multi_one(st, item, source_url, cands) ==
    LET copied == item.assigned # NoPath /\ InCandidates(item.assigned)
                  /\ basename(item.assigned) \in cands
        imgs == IF copied THEN st.images \cup {new_filename(basename(item.assigned))}
                ELSE st.images
        rec == [image_url |-> multi_image_url(item.assigned, cands),
                source_url |-> source_url, ningr |-> 1, has_instr |-> TRUE]
        outcome == commit_outcome(st.db, rec, item.create)
        rows == create_recipe(st.db, rec, outcome)
    IN IF outcome = "ok"
       THEN [db |-> rows, images |-> imgs,
             tasks |-> st.tasks \cup {TemplateTask(Len(rows))},
             created |-> st.created + 1, failed |-> FALSE, raised |-> "none",
             copies |-> st.copies + (IF copied THEN 1 ELSE 0)]
       ELSE [db |-> rows, images |-> imgs, tasks |-> st.tasks,
             created |-> st.created, failed |-> TRUE, raised |-> outcome,
             copies |-> st.copies + (IF copied THEN 1 ELSE 0)]

\* for idx, recipe_dict in enumerate(payload.recipes_data): the loop stops at the
\* first recipe whose creation raises (HTTPException 500). The tasks added to
\* background_tasks run only with the handler's own response: an HTTPException
\* drops them.
RECURSIVE multi_loop(_, _, _, _)
multi_loop(st, items, source_url, cands) ==
    IF items = <<>> \/ st.failed THEN st
    ELSE multi_loop(multi_one(st, Head(items), source_url, cands), Tail(items),
                    source_url, cands)

finalize_multi_scrape(items, source_url) ==
    /\ resp.seq < MaxRequests
    /\ \E st \in {multi_loop([db |-> db, images |-> images_dir, tasks |-> tasks,
                              created |-> 0, failed |-> FALSE, raised |-> "none",
                              copies |-> 0],
                             items, source_url, candidates_dir)} :
          /\ Len(st.db) <= MaxRecipes
          /\ Cardinality(st.tasks) <= MaxTasks
          /\ db' = st.db
          /\ images_dir' = st.images
          /\ tasks' = IF st.failed THEN tasks ELSE st.tasks
          /\ resp' = IF st.failed
                     THEN Response(resp, "finalize_multi", "error", 500,
                                   "Failed to create recipe: e")
                     ELSE [Response(resp, "finalize_multi", "success", 200, "") EXCEPT
                              !.created_count = st.created]
          /\ obs' = [NoObs EXCEPT !.chosen = items[1].assigned,
                                  !.existed = InCandidates(items[1].assigned)
                                        /\ basename(items[1].assigned) \in candidates_dir,
                                  !.raised = st.raised, !.batch = Len(items),
                                  !.copies = st.copies,
                                  !.assigned = [i \in DOMAIN items |-> items[i].assigned],
                                  !.created = Len(st.db) - Len(db)]
    /\ UNCHANGED <<candidates_dir, done, known, nextId, threads, unique_source_url>>

\* ------------------------------------------------ running background tasks
\* background_generate_template: the template is written when the recipe exists,
\* has instructions and no template, and the model returned one (gen).
\* template_absent: the test of line 27; write_template: lines 32-33.
template_absent(rows, id) ==
    id \in DOMAIN rows /\ rows[id].has_instr /\ ~rows[id].template

write_template(rows, id) ==
    [rows EXCEPT ![id].template = TRUE, ![id].writes = @ + 1]

background_generate_template(rows, id, gen) ==
    IF template_absent(rows, id) /\ gen THEN write_template(rows, id) ELSE rows

\* A queued task runs, after the response of the request that added it.
\* background_upgrade_frame_quality rewrites its file in place, or returns when
\* the file is missing: the directories keep their names.
RunTask(task, gen) ==
    /\ task \in tasks
    /\ tasks' = tasks \ {task}
    /\ done' = task
    /\ images_dir' = IF task.type = "cleanup"
                     THEN delayed_cleanup_files(task.files, task.keep, images_dir)
                     ELSE images_dir
    /\ db' = IF task.type = "template"
             THEN background_generate_template(db, task.recipe, gen) ELSE db
    /\ UNCHANGED <<candidates_dir, known, nextId, resp, obs, threads, unique_source_url>>

\* -------------------------------------------- handlers taken step by step
\* The handlers and the background tasks are plain functions: the framework
\* runs each on a thread of its pool, with a database session of its own, and
\* nothing in the code orders two of them. A frame holds the locals of one that
\* is under way; pc names the step it takes next.
Remove(s, i) == SubSeq(s, 1, i - 1) \o SubSeq(s, i + 1, Len(s))

\* the image reference of a recipe and the two directories
Snapshot(rows, id, cands, imgs) ==
    [image |-> IF id \in DOMAIN rows THEN rows[id].image_url ELSE NoPath,
     cands |-> cands, imgs |-> imgs]
NoSnapshot == [image |-> NoPath, cands |-> {}, imgs |-> {}]

\* pre, mv and peer are kept for the record: the state the request found, whether
\* its shutil.move was served, and the request for the same recipe that was under
\* way with it and answered first
TemplateFrame(id) ==
    [kind |-> "template", recipe |-> id, pc |-> "generate", chosen |-> NoPath,
     cleanup |-> {}, exists |-> FALSE, final |-> NoPath, upgrade |-> {},
     pre |-> NoSnapshot, mv |-> TRUE, peer |-> <<>>]

FinalizeFrame(recipe_id, chosen_image, candidates_to_cleanup, exists, pre) ==
    [kind |-> "finalize", recipe |-> recipe_id,
     pc |-> IF exists THEN "move" ELSE "commit", chosen |-> chosen_image,
     cleanup |-> candidates_to_cleanup, exists |-> exists, final |-> chosen_image,
     upgrade |-> {}, pre |-> pre, mv |-> TRUE, peer |-> <<>>]

\* the requests under way
in_flight(ts) == Cardinality({i \in DOMAIN ts : ts[i].kind = "finalize"})

\* background_generate_template, lines 24-28: the recipe is read and tested; the
\* task ends there when there is nothing to do, else it calls the engine.
template_begin(task) ==
    /\ task \in tasks
    /\ task.type = "template"
    /\ tasks' = tasks \ {task}
    /\ threads' = IF template_absent(db, task.recipe)
                  THEN Append(threads, TemplateFrame(task.recipe)) ELSE threads
    /\ Len(threads') <= MaxThreads
    /\ done' = IF template_absent(db, task.recipe) THEN done ELSE task
    /\ UNCHANGED <<db, images_dir, candidates_dir, known, nextId, resp, obs, unique_source_url>>

\* background_generate_template, lines 29-33: the engine answered (gen: with a
\* template); the template is set on the row read before and committed.
template_end(i, gen) ==
    /\ i \in DOMAIN threads
    /\ threads[i].kind = "template"
    /\ db' = IF gen THEN write_template(db, threads[i].recipe) ELSE db
    /\ threads' = Remove(threads, i)
    /\ done' = TemplateTask(threads[i].recipe)
    /\ UNCHANGED <<images_dir, candidates_dir, tasks, known, nextId, resp, obs, unique_source_url>>

\* GET /recipes/{recipe_id}: the recipe is returned, and a template task is
\* added while the recipe has instructions and no template.
read_recipe(recipe_id) ==
    /\ resp.seq < MaxRequests
    /\ resp' = IF recipe_id \in DOMAIN db
               THEN [Response(resp, "read_recipe", "success", 200, "") EXCEPT
                        !.recipe = recipe_id]
               ELSE Response(resp, "read_recipe", "error", 404, "Recipe not found")
    /\ tasks' = IF template_absent(db, recipe_id)
                THEN tasks \cup {ReadTemplateTask(recipe_id)} ELSE tasks
    /\ Cardinality(tasks') <= MaxTasks
    /\ obs' = NoObs
    /\ UNCHANGED <<db, images_dir, candidates_dir, done, known, nextId, threads, unique_source_url>>

\* finalize_scrape, lines 391-408: the recipe is looked up (404 when missing)
\* and the chosen candidate tested with os.path.exists.
finalize_begin(recipe_id, chosen_image, candidates_to_cleanup) ==
    LET exists == InCandidates(chosen_image) /\ basename(chosen_image) \in candidates_dir
        peers == {i \in DOMAIN threads :
                     threads[i].kind = "finalize" /\ threads[i].recipe = recipe_id}
        pre == IF peers = {}
               THEN Snapshot(db, recipe_id, candidates_dir, images_dir)
               ELSE threads[CHOOSE i \in peers : TRUE].pre
    IN
    /\ resp.seq + in_flight(threads) < MaxRequests
    /\ IF recipe_id \notin DOMAIN db
       THEN /\ resp' = Response(resp, "finalize_scrape", "error", 404, "Recipe not found")
            /\ obs' = [NoObs EXCEPT !.chosen = chosen_image]
            /\ threads' = threads
       ELSE /\ threads' = Append(threads,
                                 FinalizeFrame(recipe_id, chosen_image,
                                               candidates_to_cleanup, exists, pre))
            /\ Len(threads') <= MaxThreads
            /\ UNCHANGED <<resp, obs>>
    /\ UNCHANGED <<db, images_dir, candidates_dir, tasks, done, known, nextId, unique_source_url>>

\* finalize_scrape, lines 412-439: shutil.move, which raises when the source is
\* no longer there (or when mv is FALSE); the except keeps the original path.
finalize_move(i, mv) ==
    LET f == threads[i]
        filename == basename(f.chosen)
        moved == filename \in candidates_dir /\ mv
        final_image_path == IF moved THEN Perm(dest_filename(filename)) ELSE f.chosen
    IN
    /\ i \in DOMAIN threads
    /\ f.kind = "finalize" /\ f.pc = "move"
    /\ candidates_dir' = IF moved THEN move_candidate(filename, candidates_dir)
                         ELSE candidates_dir
    /\ images_dir' = IF moved THEN images_dir \cup {dest_filename(filename)} ELSE images_dir
    /\ threads' = [threads EXCEPT ![i].pc = "commit", ![i].final = final_image_path,
                                  ![i].mv = mv,
                                  ![i].upgrade = IF moved /\ is_frame_name(filename)
                                                 THEN {UpgradeTask(final_image_path)}
                                                 ELSE {}]
    /\ UNCHANGED <<db, tasks, done, known, nextId, resp, obs, unique_source_url>>

\* finalize_scrape, lines 441-454: the image reference is committed, the
\* cleanup is queued and the response sent.
finalize_commit(i) ==
    LET f == threads[i]
        me == [chosen |-> f.chosen, mv |-> f.mv]
        told == [j \in DOMAIN threads |->
                    IF j # i /\ threads[j].kind = "finalize" /\ threads[j].recipe = f.recipe
                    THEN [threads[j] EXCEPT !.peer = <<me>>] ELSE threads[j]]
    IN
    /\ i \in DOMAIN threads
    /\ f.kind = "finalize" /\ f.pc = "commit"
    /\ db' = [db EXCEPT ![f.recipe].image_url = f.final]
    /\ tasks' = tasks \cup f.upgrade
                 \cup (IF f.cleanup # {}
                       THEN {CleanupTask(f.cleanup, f.chosen, "finalize_scrape")} ELSE {})
    /\ resp' = [Response(resp, "finalize_scrape", "success", 200, "") EXCEPT
                    !.recipe = f.recipe]
    /\ obs' = [NoObs EXCEPT !.chosen = f.chosen, !.existed = f.exists,
                            !.peer = IF f.peer = <<>> THEN <<>>
                                     ELSE <<[pre |-> f.pre, first |-> f.peer[1],
                                             second |-> me]>>]
    /\ threads' = Remove(told, i)
    /\ UNCHANGED <<images_dir, candidates_dir, done, known, nextId, unique_source_url>>

\* finalize_scrape run alone on a snapshot: what it leaves
finalize_serial(st, call) ==
    LET filename == basename(call.chosen)
        moved == InCandidates(call.chosen) /\ filename \in st.cands /\ call.mv
    IN [image |-> IF moved THEN Perm(dest_filename(filename)) ELSE call.chosen,
        cands |-> IF moved THEN move_candidate(filename, st.cands) ELSE st.cands,
        imgs |-> IF moved THEN st.imgs \cup {dest_filename(filename)} ELSE st.imgs]

\* ----------------------------------------------- generative responses
\* The shape of a JSON value as the sanitizer reads it.
\* An element of an ingredients or instructions list: a string, a number, a
\* list or an object; of an object, the shapes of its "text" and "name" fields
\* ("absent" when the object has none).
Elem(shape, text, name) == [shape |-> shape, text |-> text, name |-> name]
StrElem == Elem("str", "absent", "absent")
NumElem == Elem("num", "absent", "absent")
ListElem == Elem("list", "absent", "absent")
FieldShapes == {"absent", "str", "num", "list", "obj"}
Elems == {StrElem, NumElem, ListElem}
         \cup {Elem("obj", tx, "absent") : tx \in FieldShapes}
         \cup {Elem("obj", "absent", nm) : nm \in FieldShapes}
         \cup {Elem("obj", "str", "list"), Elem("obj", "list", "str")}

\* What the sanitizer makes of an element: the shape of the result and the rule
\* that gave it.
\* scrape_ai, ingredients:
\*   list -> " ".join(str(x) for x in i)
\*   dict -> i.get("text", i.get("name", str(i)))
\*   else -> str(i)
sanitize_ingredient(e) ==
    CASE e.shape = "list" -> [shape |-> "str", via |-> "join"]
      [] e.shape = "obj" ->
           IF e.text # "absent" THEN [shape |-> e.text, via |-> "text"]
           ELSE IF e.name # "absent" THEN [shape |-> e.name, via |-> "name"]
           ELSE [shape |-> "str", via |-> "str"]
      [] OTHER -> [shape |-> "str", via |-> "str"]

\* scrape_ai, instructions:
\*   list -> " ".join(str(x) for x in inst)
\*   dict -> inst.get("text", str(inst))
\*   else -> str(inst)
sanitize_instruction(e) ==
    CASE e.shape = "list" -> [shape |-> "str", via |-> "join"]
      [] e.shape = "obj" ->
           IF e.text # "absent" THEN [shape |-> e.text, via |-> "text"]
           ELSE [shape |-> "str", via |-> "str"]
      [] OTHER -> [shape |-> "str", via |-> "str"]

\* sanitized_ingredients / sanitized_instructions: the loops over the lists
sanitized_ingredients(items) == [i \in DOMAIN items |-> sanitize_ingredient(items[i])]
sanitized_instructions(items) == [i \in DOMAIN items |-> sanitize_instruction(items[i])]

\* A field of a recipe object: absent, a string, a number, or a list of elements.
Field(shape, items) == [shape |-> shape, items |-> items]
AbsentField == Field("absent", <<>>)
StringField == Field("string", <<>>)
NumberField == Field("number", <<>>)
ListField(items) == Field("list", items)

\* recipe.get(key, []) as the for loop walks it: a string is walked character
\* by character (one character stands for them), a number cannot be walked.
field_items(f) ==
    CASE f.shape = "list" -> f.items
      [] f.shape = "string" -> <<StrElem>>
      [] OTHER -> <<>>
field_raises(f) == f.shape = "number"

\* The elements of one recipe object as the sanitizing loops of scrape_ai meet
\* them (lines 227-248 and 286-307): the element, the list it is in and what is
\* made of it.
coercions(r) ==
    [i \in DOMAIN field_items(r.ingredients) |->
        [kind |-> "ingredient", raw |-> field_items(r.ingredients)[i],
         got |-> sanitized_ingredients(field_items(r.ingredients))[i]]]
    \o [i \in DOMAIN field_items(r.instructions) |->
           [kind |-> "instruction", raw |-> field_items(r.instructions)[i],
            got |-> sanitized_instructions(field_items(r.instructions))[i]]]

\* A recipe object of a response: which keys it has.
RecipeDict(title, ingredients, instructions, image_url) ==
    [title |-> title, ingredients |-> ingredients, instructions |-> instructions,
     image_url |-> image_url]

\* len(recipe_dict): the number of its keys
num_keys(r) ==
    (IF r.title THEN 1 ELSE 0) + (IF r.ingredients.shape # "absent" THEN 1 ELSE 0)
    + (IF r.instructions.shape # "absent" THEN 1 ELSE 0) + (IF r.image_url THEN 1 ELSE 0)

\* What the completion service answers: an API error, a rate-limit rejection
\* (HTTP 429, groq.RateLimitError), text that is no JSON, a JSON object, or a
\* JSON array of objects.
ApiError == [t |-> "error"]
RateLimited == [t |-> "rate_limited"]
NotJson == [t |-> "notjson"]
JsonObject(r) == [t |-> "obj", r |-> r]
JsonArray(rs) == [t |-> "arr", rs |-> rs]
None == [t |-> "None"]

\* llm.extract_with_groq: json.loads, then the required keys and the list shapes
\* are checked; every exception gives None. An array of objects holds none of
\* the keys.
extract_with_groq(raw) ==
    IF raw.t = "obj" /\ raw.r.title /\ raw.r.ingredients.shape = "list"
       /\ raw.r.instructions.shape = "list"
    THEN raw ELSE None

\* llm.extract_recipe_from_text: json.loads of the answer, None on any exception
extract_recipe_from_text(raw) ==
    IF raw.t \in {"obj", "arr"} THEN raw ELSE None

\* The reason scrape_ai reports when the extractor returned nothing: the
\* HTTPException it raises itself ("AI failed to extract ...") goes through the
\* surrounding except, whatever made the extractor return None.
engine_failure_reason(video, raw) ==
    IF video THEN "Video/Audio processing error: e" ELSE "str(e)"

\* not extracted
is_falsy(v) ==
    \/ v = None
    \/ v.t = "obj" /\ num_keys(v.r) = 0
    \/ v.t = "arr" /\ v.rs = <<>>

\* len(recipes_array)
py_len(v) == IF v.t = "obj" THEN num_keys(v.r) ELSE Len(v.rs)

\* schemas.RecipeCreate(**recipe_data): title is required, every ingredient text
\* and every instruction a str. lax: the validator turns a number into a str.
shape_valid(sh, lax) == sh = "str" \/ (sh = "num" /\ lax)
recipe_create_valid(title, ingredients, instructions, lax) ==
    /\ title
    /\ \A i \in DOMAIN ingredients : shape_valid(ingredients[i].shape, lax)
    /\ \A i \in DOMAIN instructions : shape_valid(instructions[i].shape, lax)

\* -------------------------------------------------------------- /scrape
\* What scraper.scrape_with_library returns: None, or a recipe with or without
\* an image url; "recipe_no_instructions" is a recipe whose instructions list
\* is empty.
LibOutcomes == {"none", "recipe", "recipe_image", "recipe_no_instructions"}

\* What a page gives the library extractor:
\*   fetch         get_html: "ok", or "fail" (a RequestException, caught there)
\*   site          scrape_me: "ok", "unsupported" (WebsiteNotImplementedError) or
\*                 "error" (any other exception)
\*   ingredients   scraper.ingredients(): "raise", "empty" ([]) or "some"
\*   instructions  scraper.instructions(), a str: "raise", "empty" (""),
\*                 "newlines" (line breaks only: steps without text) or "text"
\*   title         scraper.title(): "raise" or "ok"
\*   image         scraper.image(): "raise", "none", "blank" or "url"
\*   extras        instructions_list(), prep_time(), cook_time(), yields():
\*                 "raise" or "ok"
BasePage ==
    [fetch |-> "ok", site |-> "ok", ingredients |-> "some", instructions |-> "text",
     title |-> "ok", image |-> "url", extras |-> "ok"]

Pages ==
    {BasePage, [BasePage EXCEPT !.fetch = "fail"]}
    \cup {[BasePage EXCEPT !.site = v] : v \in {"unsupported", "error"}}
    \cup {[BasePage EXCEPT !.ingredients = v] : v \in {"raise", "empty"}}
    \cup {[BasePage EXCEPT !.instructions = v] : v \in {"raise", "empty", "newlines"}}
    \cup {[BasePage EXCEPT !.title = "raise"], [BasePage EXCEPT !.extras = "raise"]}
    \cup {[BasePage EXCEPT !.image = v] : v \in {"raise", "none", "blank"}}

\* not value, for the list of ingredients and the str of instructions
not_value(v) == v = "empty"

\* scraper.instructions_list(): the lines of instructions() that are not empty;
\* gives whether there is one
instructions_list(instructions) == instructions = "text"

\* scraper.scrape_with_library
scrape_with_library(page) ==
    IF page.fetch # "ok" THEN "none"
    ELSE IF page.site # "ok" THEN "none"
    ELSE IF "raise" \in {page.ingredients, page.instructions, page.title} THEN "none"
    ELSE IF not_value(page.ingredients) \/ not_value(page.instructions) THEN "none"
    ELSE IF page.image = "raise" \/ page.extras = "raise" THEN "none"
    ELSE IF ~instructions_list(page.instructions) THEN "recipe_no_instructions"
    ELSE IF page.image = "url" THEN "recipe_image"
    ELSE "recipe"

\* POST /scrape. dl: whether the image download succeeds; persist: "invalid"
\* when RecipeCreate(**recipe_data) raises, else the outcome of create_recipe.
\* Every exception of the try block becomes HTTP 400.
\* (a handler that would swallow every outcome into success)
scrape_status_always_success(lib, outcome) ==
    "success"

\* (a handler that would go on to store a record when the library gave nothing)
scrape_status_never_ai(lib, outcome) ==
    IF outcome = "ok" THEN "success" ELSE "error"

scrape_status(lib, outcome) ==
    IF lib = "none" THEN "ai_required"
    ELSE IF outcome = "ok" THEN "success" ELSE "error"

scrape_recipe(url, lib, dl, persist) ==
    LET image0 == IF lib = "recipe_image" THEN LibraryImageUrl ELSE NoPath
        local == download_image_path(image0, dl, nextId)
        wrote == download_image_writes(image0, dl)
        image == IF local # NoPath THEN local ELSE image0
        rec == [image_url |-> image, source_url |-> url, ningr |-> 1,
                has_instr |-> lib # "recipe_no_instructions"]
        outcome == commit_outcome(db, rec, persist)
        rows == IF lib = "none" THEN db ELSE create_recipe(db, rec, outcome)
        status == scrape_status(lib, outcome)
    IN
    /\ resp.seq < MaxRequests
    /\ Len(rows) <= MaxRecipes
    /\ nextId + (IF wrote THEN 1 ELSE 0) <= MaxIds + 1
    /\ db' = rows
    /\ nextId' = nextId + (IF wrote THEN 1 ELSE 0)
    /\ images_dir' = IF wrote THEN images_dir \cup {basename(local)} ELSE images_dir
    /\ tasks' = IF status = "success" THEN tasks \cup {TemplateTask(Len(rows))} ELSE tasks
    /\ Cardinality(tasks') <= MaxTasks
    /\ resp' = CASE status = "success" ->
                      [Response(resp, "scrape", "success", 200, "") EXCEPT !.recipe = Len(rows)]
                 [] status = "ai_required" ->
                      Response(resp, "scrape", "ai_required", 200,
                               "Standard scraping failed. Would you like to try with AI?")
                 [] OTHER -> Response(resp, "scrape", "error", 400, "Scraping failed: e")
    /\ obs' = [NoObs EXCEPT !.lib = lib,
                            !.raised = IF lib # "none" /\ outcome # "ok" THEN outcome ELSE "none",
                            !.created = Len(rows) - Len(db)]
    /\ UNCHANGED <<candidates_dir, done, known, threads, unique_source_url>>

\* ----------------------------------------------------------- /scrape-ai
\* What the services of one /scrape-ai request answer (x):
\*   thumb, subs, desc  get_video_metadata: a thumbnail, declared subtitles, a
\*                      description
\*   link, scraped      extract_recipe_link found a link; what the linked page
\*                      gave: "none", "html", "image", "both"
\*   captions           get_subtitle_text: "text", "empty", or "raise" (an
\*                      exception, which it turns into "")
\*   subfiles           the caption files the download wrote into temp_subs
\*   audio              download_audio: "fail" (""), "small", "large" (> 24 MB)
\*   chunking, nchunks  chunk_audio of a large file: "raise" (AudioSegment) or
\*                      "ok" with nchunks chunks
\*   trans              transcribe_audio per chunk: whether it gave text
\*   html               scraper.get_html gave the page
\*   engine             the completion service's answer
\*   clip               the clip download, per strategy in order: "ok", or
\*                      "fail" (an exception, or a missing or empty file)
\*   frames             the offsets whose frame ffmpeg extracted from the clip
\*   dl_scraped, dl_main  whether download_image succeeds
\*   lax                the validator turns numbers into strings
\*   persist            the outcome of crud.create_recipe
EngineImageUrl == Remote(4)

link_html(x) == x.desc /\ x.link /\ x.scraped \in {"html", "both"}
scraped_image(x) == x.desc /\ x.link /\ x.scraped \in {"image", "both"}

\* "\n".join(texts): empty for no chunk and for one chunk without text; two
\* chunks without text still give the separator.
join_texts(texts) ==
    IF \E i \in DOMAIN texts : texts[i] THEN "audio"
    ELSE IF Len(texts) >= 2 THEN "newlines"
    ELSE ""

\* chunks = chunk_audio(download_audio(url)) and their transcription
audio_texts(x) ==
    CASE x.audio = "fail" -> <<>>
      [] x.audio = "small" -> <<x.trans[1]>>
      [] OTHER -> SubSeq(x.trans, 1, x.nchunks)
chunk_audio_raises(x) == x.audio = "large" /\ x.chunking = "raise"

\* A temporary file: the directory it is looked for under ("cwd" for a path
\* relative to the working directory, "static" for one under assets.STATIC_DIR),
\* its folder and its name.
TempFile(root, folder, name) == [root |-> root, folder |-> folder, name |-> name]

\* download_audio returns os.path.join("temp_audio", f"{file_id}.mp3"), a path
\* relative to the working directory; chunk_audio writes its parts beside it.
AudioFile == TempFile("cwd", "temp_audio", 0)
ChunkFile(i) == TempFile("cwd", "temp_audio", i)

\* chunk_audio: [] for no file, the file itself when small, else its parts
chunk_audio(x) ==
    CASE x.audio = "fail" -> <<>>
      [] x.audio = "small" -> <<AudioFile>>
      [] OTHER -> [i \in 1..x.nchunks |-> ChunkFile(i)]

\* audio_processor.cleanup_files: a path that does not start with '/' is joined
\* with assets.STATIC_DIR, and removed when a file is there.
cleanup_files(files, disk) ==
    disk \ {[f EXCEPT !.root = "static"] : f \in files}

\* the files of temp_audio after the audio tier: the download and the parts are
\* written; cleanup_files is reached only when nothing raised before it.
audio_left(x) ==
    LET written == IF x.audio = "fail" THEN {}
                   ELSE {AudioFile}
                        \cup (IF x.audio = "large" /\ x.chunking = "ok"
                              THEN Range(chunk_audio(x)) ELSE {})
    IN IF chunk_audio_raises(x) THEN written
       ELSE cleanup_files((IF x.audio = "fail" THEN {} ELSE {AudioFile})
                          \cup Range(chunk_audio(x)), written)

\* get_subtitle_text: the first .vtt/.srt file found is read and removed before
\* the text is returned; an exception leaves every file where it is.
subtitle_left(x) ==
    LET written == {TempFile("cwd", "temp_subs", i) : i \in 1..x.subfiles}
    IN IF x.captions = "raise" \/ x.subfiles = 0 THEN written
       ELSE written \ {TempFile("cwd", "temp_subs", 1)}

\* the temporary files a request leaves behind
temp_left(x) ==
    IF link_html(x) THEN {}
    ELSE (IF x.subs THEN subtitle_left(x) ELSE {})
         \cup (IF x.subs /\ x.captions = "text" THEN {} ELSE audio_left(x))

\* (an assembler that would download the audio although the captions gave text)
assemble_audio_anyway(x) ==
    [text |-> "captions", tiers |-> <<"captions", "audio">>, raised |-> FALSE,
     audio |-> "text"]

\* scrape_ai lines 119-167: the transcript handed to the engine, the tiers
\* walked, and whether an exception left the block.
\* audio: what the audio tier gave, "none" when it was not entered.
assemble(x) ==
    LET t0 == IF x.desc THEN <<"link">> ELSE <<>>
        t1 == t0 \o (IF x.subs THEN <<"captions">> ELSE <<>>)
        t2 == t1 \o <<"audio">>
        texts == audio_texts(x)
        joined == join_texts(texts)
        heard == IF \E i \in DOMAIN texts : texts[i] THEN "text" ELSE "no_text"
    IN IF link_html(x)
       THEN [text |-> "link", tiers |-> t0, raised |-> FALSE, audio |-> "none"]
       ELSE IF x.subs /\ x.captions = "text"
       THEN [text |-> "captions", tiers |-> t1, raised |-> FALSE, audio |-> "none"]
       ELSE IF chunk_audio_raises(x)
       THEN [text |-> "", tiers |-> t2, raised |-> TRUE, audio |-> "raised"]
       ELSE IF joined # ""
       THEN [text |-> joined, tiers |-> t2, raised |-> FALSE, audio |-> heard]
       ELSE [text |-> "description", tiers |-> t2 \o <<"description">>,
             raised |-> FALSE, audio |-> heard]

\* capture_video_frames: the captured frames, in offset order
RECURSIVE frame_list(_, _, _)
frame_list(id, frames, t) ==
    IF t > MaxFrames THEN <<>>
    ELSE (IF t \in frames THEN <<Cand(Name("frame", id, t))>> ELSE <<>>)
         \o frame_list(id, frames, t + 1)

\* capture_frames: the clip is tried with the yt-dlp clients android, ios and
\* web, then with pytubefix; every exception is caught.
Strategies == <<"android", "ios", "web", "pytubefix">>
download_successful(clip) == \E i \in DOMAIN Strategies : clip[i] = "ok"

\* What one strategy does with clip_path:
\*   "ok"             returns, the clip is there and not empty
\*   "raise"          raises, nothing written
\*   "raise_partial"  raises, a partial file written
\*   "empty"          returns, a zero-byte file written
\*   "missing"        returns, nothing written
ClipFailures == {"raise", "raise_partial", "empty", "missing"}
raises(outcome) == outcome \in {"raise", "raise_partial"}

\* what the strategy itself leaves at clip_path ("none", "empty", "partial",
\* "full"), file being what was there before
clip_written(file, outcome) ==
    CASE outcome = "ok" -> "full"
      [] outcome = "raise_partial" -> "partial"
      [] outcome = "empty" -> "empty"
      [] OTHER -> file

\* clip_path after strategy i: the except of a yt-dlp client removes the file
\* (lines 198-205), the except of pytubefix does not (lines 227-230)
clip_after(file, outcome, i) ==
    IF raises(outcome) /\ Strategies[i] # "pytubefix" THEN "none"
    ELSE clip_written(file, outcome)

\* os.path.exists(clip_path) and os.path.getsize(clip_path) > 0
clip_present(file) == file \in {"partial", "full"}

\* The retry loop of lines 177-230. st: [tried, file, ok, files], files being
\* what clip_path held when each strategy started.
\* (a loop that would go on after a success)
loop_over_at_end(i, st) == i > Len(Strategies)

\* break on download_successful, and 'if not download_successful' (line 208)
loop_over(i, st) == i > Len(Strategies) \/ st.ok

RECURSIVE download_clip(_, _, _)
download_clip(clip, i, st) ==
    IF loop_over(i, st) THEN st
    ELSE LET file == clip_after(st.file, clip[i], i)
         IN download_clip(clip, i + 1,
                [tried |-> Append(st.tried, Strategies[i]),
                 file |-> file,
                 ok |-> ~raises(clip[i]) /\ clip_present(file),
                 files |-> Append(st.files, st.file)])

\* clip_path when capture_frames returns: removed after the frames are
\* extracted (lines 265-271), left as it is by the return of line 235
clip_left(st) == IF st.ok THEN "none" ELSE st.file

NoClip == [tried |-> <<>>, file |-> "none", ok |-> FALSE, files |-> <<>>]

\* (a capture that would hand out frames without a clip)
capture_frames_without_clip(id, clip, frames) ==
    frame_list(id, frames, 1)

\* capture_frames: [] when no strategy gave a clip, else the frames extracted
capture_frames(id, clip, frames) ==
    IF ~download_successful(clip) THEN <<>> ELSE frame_list(id, frames, 1)

capture_video_frames(id, x) == capture_frames(id, x.clip, x.frames)

\* candidates.pop(), then append
Front(s) == SubSeq(s, 1, Len(s) - 1)

\* if len(recipes_array) == 1
is_single(extracted) == py_len(extracted) = 1

\* The draft made of one recipe object on the multi-recipe path.
draft_of(r, default_thumbnail) ==
    [ingredients |-> sanitized_ingredients(field_items(r.ingredients)),
     instructions |-> sanitized_instructions(field_items(r.instructions)),
     image_url |-> IF r.image_url THEN EngineImageUrl ELSE default_thumbnail]

\* The request up to the branch on the number of recipes (lines 108-217):
\* [fail, code, reason, raised, extracted, candidates, default_thumbnail,
\*  cand_files, image_files, next, tiers, source, engine_called, audio].
ai_gather(url, x, id) ==
    LET base == [fail |-> FALSE, code |-> 200, reason |-> "", raised |-> "none",
                 extracted |-> None, candidates |-> <<>>, default_thumbnail |-> NoPath,
                 cand_files |-> {}, image_files |-> {}, next |-> id,
                 tiers |-> <<>>, source |-> "none", engine_called |-> FALSE,
                 audio |-> "none", capture |-> "none", clip |-> NoClip,
                 clip_left |-> "none",
                 temp |-> IF is_video_audio(url) THEN temp_left(x) ELSE {}]
    IN
    IF is_video_audio(url)
    THEN LET asm == assemble(x)
             extracted == extract_recipe_from_text(x.engine)
             frames == capture_video_frames(id, x)
             dl == download_clip(x.clip, 1, NoClip)
             n1 == IF frames # <<>> THEN id + 1 ELSE id
             local == IF scraped_image(x)
                      THEN download_image_path(ScrapedImageUrl, x.dl_scraped, n1)
                      ELSE NoPath
             wrote == scraped_image(x) /\ download_image_writes(ScrapedImageUrl, x.dl_scraped)
             candidates == IF local # NoPath
                           THEN (IF frames # <<>> THEN Front(frames) ELSE frames) \o <<local>>
                           ELSE frames
         IN IF asm.raised
            THEN [base EXCEPT !.fail = TRUE, !.code = 500, !.raised = "tier",
                              !.reason = "Video/Audio processing error: e",
                              !.tiers = asm.tiers, !.audio = asm.audio]
            ELSE IF is_falsy(extracted)
            THEN [base EXCEPT !.fail = TRUE, !.code = 500, !.raised = "engine_none",
                              !.reason = engine_failure_reason(TRUE, x.engine),
                              !.tiers = asm.tiers, !.source = asm.text,
                              !.engine_called = TRUE, !.audio = asm.audio]
            ELSE [base EXCEPT !.extracted = extracted, !.candidates = candidates,
                              !.default_thumbnail = IF x.thumb THEN ThumbnailUrl ELSE NoPath,
                              !.cand_files = {basename(f) : f \in Range(frames)},
                              !.image_files = IF wrote THEN {basename(local)} ELSE {},
                              !.next = IF wrote THEN n1 + 1 ELSE n1,
                              !.tiers = asm.tiers, !.source = asm.text,
                              !.engine_called = TRUE, !.audio = asm.audio,
                              !.capture = IF download_successful(x.clip)
                                          THEN "clip" ELSE "all_failed",
                              !.clip = dl, !.clip_left = clip_left(dl)]
    ELSE LET extracted == extract_with_groq(x.engine)
         IN IF ~x.html
            THEN [base EXCEPT !.fail = TRUE, !.code = 400, !.raised = "fetch",
                              !.reason = "Could not fetch HTML from the URL."]
            ELSE IF is_falsy(extracted)
            THEN [base EXCEPT !.fail = TRUE, !.code = 500, !.raised = "engine_none",
                              !.reason = engine_failure_reason(FALSE, x.engine),
                              !.source = "html",
                              !.engine_called = TRUE]
            ELSE [base EXCEPT !.extracted = extracted, !.source = "html",
                              !.engine_called = TRUE]

\* The single-recipe path (lines 221-275). g: what ai_gather gave.
\* recipes_array[0] of a dict raises KeyError; walking a number raises
\* TypeError; the image is downloaded before the record is validated.
ai_single(url, x, g, rows) ==
    LET fail(raised) ==
            [status |-> "error", code |-> 500, reason |-> "Internal Server Error",
             raised |-> raised, db |-> rows, image_files |-> g.image_files,
             next |-> g.next, task |-> {}, recipe |-> 0, candidates |-> <<>>,
             drafts |-> <<>>, branch |-> "single"]
    IN
    IF g.extracted.t = "obj" THEN fail("KeyError")
    ELSE
    LET r == g.extracted.rs[1]
        ingredients == sanitized_ingredients(field_items(r.ingredients))
        instructions == sanitized_instructions(field_items(r.instructions))
        image0 == IF r.image_url THEN EngineImageUrl ELSE g.default_thumbnail
        local == download_image_path(image0, x.dl_main, g.next)
        wrote == download_image_writes(image0, x.dl_main)
        image == IF local # NoPath THEN local ELSE image0
        candidates == IF local # NoPath /\ g.candidates # <<>>
                         /\ local \notin Range(g.candidates)
                      THEN <<local>> \o g.candidates ELSE g.candidates
        files == IF wrote THEN g.image_files \cup {basename(local)} ELSE g.image_files
        next == IF wrote THEN g.next + 1 ELSE g.next
        rec == [image_url |-> image, source_url |-> url, ningr |-> Len(ingredients),
                has_instr |-> instructions # <<>>]
        valid == recipe_create_valid(r.title, ingredients, instructions, x.lax)
        outcome == commit_outcome(rows, rec, IF valid THEN x.persist ELSE "invalid")
        stored == create_recipe(rows, rec, outcome)
    IN
    IF field_raises(r.ingredients) \/ field_raises(r.instructions) THEN fail("TypeError")
    ELSE IF outcome # "ok"
    THEN [fail(IF valid THEN outcome ELSE "ValidationError") EXCEPT
             !.db = stored, !.image_files = files, !.next = next]
    ELSE [status |-> "success", code |-> 200, reason |-> "", raised |-> "none",
          db |-> stored, image_files |-> files, next |-> next,
          task |-> {TemplateTask(Len(stored))}, recipe |-> Len(stored),
          candidates |-> candidates, drafts |-> <<>>, branch |-> "single"]

\* The multi-recipe path (lines 277-323): nothing is stored. Walking a dict
\* gives its keys, and recipe_dict['source_url'] = ... on a key raises TypeError.
ai_multi(url, x, g, rows) ==
    LET fail(raised) ==
            [status |-> "error", code |-> 500, reason |-> "Internal Server Error",
             raised |-> raised, db |-> rows, image_files |-> g.image_files,
             next |-> g.next, task |-> {}, recipe |-> 0, candidates |-> <<>>,
             drafts |-> <<>>, branch |-> "multi"]
    IN
    IF g.extracted.t = "obj" THEN fail("TypeError")
    ELSE IF \E i \in DOMAIN g.extracted.rs :
               \/ field_raises(g.extracted.rs[i].ingredients)
               \/ field_raises(g.extracted.rs[i].instructions)
    THEN fail("TypeError")
    ELSE [status |-> "multi_recipe", code |-> 200, reason |-> "", raised |-> "none",
          db |-> rows, image_files |-> g.image_files, next |-> g.next,
          task |-> {}, recipe |-> 0, candidates |-> g.candidates,
          drafts |-> [i \in DOMAIN g.extracted.rs |->
                         draft_of(g.extracted.rs[i], g.default_thumbnail)],
          branch |-> "multi"]

\* what the request does once ai_gather has answered
ai_outcome(url, x, g, rows, id) ==
    IF g.fail
    THEN [status |-> "error", code |-> g.code, reason |-> g.reason,
          raised |-> g.raised, db |-> rows, image_files |-> {},
          next |-> id, task |-> {}, recipe |-> 0, candidates |-> <<>>,
          drafts |-> <<>>, branch |-> "none"]
    ELSE IF is_single(g.extracted) THEN ai_single(url, x, g, rows)
    ELSE ai_multi(url, x, g, rows)

\* POST /scrape-ai
scrape_ai(url, x) ==
    /\ resp.seq < MaxRequests
    /\ \E g \in {ai_gather(url, x, nextId)} :
       \E o \in {ai_outcome(url, x, g, db, nextId)} :
          /\ o.next <= MaxIds + 1
          /\ Len(o.db) <= MaxRecipes
          /\ db' = o.db
          /\ nextId' = o.next
          /\ images_dir' = images_dir \cup o.image_files
          /\ candidates_dir' = candidates_dir \cup g.cand_files
          /\ tasks' = tasks \cup o.task
          /\ Cardinality(tasks') <= MaxTasks
          /\ known' = known \cup Range(o.candidates)
          /\ resp' = [Response(resp, "scrape_ai", o.status, o.code, o.reason) EXCEPT
                         !.recipe = o.recipe, !.image_candidates = o.candidates,
                         !.drafts = o.drafts]
          /\ obs' = [NoObs EXCEPT !.video = is_video_audio(url), !.tiers = g.tiers,
                                  !.source = g.source, !.raised = o.raised,
                                  !.engine = IF g.engine_called THEN x.engine
                                             ELSE [t |-> "none"],
                                  !.engine_called = g.engine_called, !.branch = o.branch,
                                  !.audio = g.audio, !.created = Len(o.db) - Len(db),
                                  !.temp = g.temp, !.capture = g.capture,
                                  !.clip = g.clip, !.clip_left = g.clip_left,
                                  !.cand_files = g.cand_files,
                                  !.coerced = IF o.branch \in {"single", "multi"}
                                                 /\ o.raised \notin {"KeyError", "TypeError"}
                                              THEN coercions(g.extracted.rs[1])
                                              ELSE <<>>,
                                  !.outcomes = IF g.capture = "none" THEN <<>>
                                               ELSE x.clip,
                                  !.url = url]
    /\ UNCHANGED <<done, threads, unique_source_url>>

\* ---------------------------------------------------- request inputs
\* the recipe object the prompt asks for
GoodRecipe == RecipeDict(TRUE, ListField(<<StrElem>>), ListField(<<StrElem>>), FALSE)
TitleOnly == RecipeDict(TRUE, AbsentField, AbsentField, FALSE)
EmptyDict == RecipeDict(FALSE, AbsentField, AbsentField, FALSE)

Fields == {AbsentField, StringField, NumberField, ListField(<<>>)}
          \cup {ListField(<<e>>) : e \in Elems}

\* recipe objects that differ from GoodRecipe in one key
Recipes ==
    {GoodRecipe, TitleOnly, EmptyDict,
     [GoodRecipe EXCEPT !.title = FALSE], [GoodRecipe EXCEPT !.image_url = TRUE]}
    \cup {[GoodRecipe EXCEPT !.ingredients = f] : f \in Fields}
    \cup {[GoodRecipe EXCEPT !.instructions = f] : f \in Fields}

\* answers of the completion service
Answers ==
    {ApiError, RateLimited, NotJson, JsonArray(<<>>), JsonArray(<<GoodRecipe, GoodRecipe>>)}
    \cup {JsonObject(r) : r \in {GoodRecipe, TitleOnly, EmptyDict,
                                   [GoodRecipe EXCEPT !.title = FALSE],
                                   [GoodRecipe EXCEPT !.ingredients = StringField],
                                   [GoodRecipe EXCEPT !.instructions = AbsentField]}}
    \cup {JsonArray(<<r>>) : r \in Recipes}
    \cup {JsonArray(<<GoodRecipe, [GoodRecipe EXCEPT !.ingredients = f]>>) :
            f \in {AbsentField, NumberField, ListField(<<ListElem>>),
                   ListField(<<Elem("obj", "list", "absent")>>)}}
    \cup {JsonArray(<<[GoodRecipe EXCEPT !.instructions = f], GoodRecipe>>) :
            f \in {StringField, ListField(<<Elem("obj", "absent", "str")>>),
                   ListField(<<Elem("obj", "obj", "absent")>>)}}

\* a request where every service answers and the engine gives one recipe in an array
BaseX ==
    [thumb |-> TRUE, subs |-> TRUE, desc |-> TRUE, link |-> FALSE, scraped |-> "none",
     captions |-> "text", subfiles |-> 1, audio |-> "small", chunking |-> "ok", nchunks |-> 2,
     trans |-> [i \in 1..MaxChunks |-> TRUE], html |-> TRUE,
     engine |-> JsonArray(<<GoodRecipe>>),
     clip |-> [i \in DOMAIN Strategies |-> "ok"], frames |-> 1..MaxFrames,
     dl_scraped |-> TRUE, dl_main |-> TRUE, lax |-> FALSE, persist |-> "ok"]

\* the transcript tiers: captions that gave nothing (or none declared), then the
\* audio download, chunking and transcription
TierInputs ==
    {[BaseX EXCEPT !.subs = sb, !.captions = "empty", !.audio = "fail"] : sb \in BOOLEAN}
    \cup {[BaseX EXCEPT !.subs = sb, !.captions = "empty", !.audio = "small",
                        !.trans = [i \in 1..MaxChunks |-> t]] :
            sb \in BOOLEAN, t \in BOOLEAN}
    \cup {[BaseX EXCEPT !.captions = "empty", !.audio = "large", !.chunking = "raise"]}
    \cup {[BaseX EXCEPT !.captions = "empty", !.audio = "large", !.nchunks = n,
                        !.trans = tr] :
            n \in 2..MaxChunks, tr \in [1..MaxChunks -> BOOLEAN]}
    \cup {[BaseX EXCEPT !.desc = FALSE, !.captions = c] : c \in {"text", "empty"}}
    \cup {[BaseX EXCEPT !.captions = c, !.subfiles = n, !.audio = "fail"] :
            c \in {"text", "raise"}, n \in 1..2}

\* the linked recipe page and the images
ImageInputs ==
    {[BaseX EXCEPT !.link = TRUE, !.scraped = sc, !.frames = fr, !.dl_scraped = d1] :
        sc \in {"none", "html", "image", "both"}, fr \in {{}, 1..MaxFrames},
        d1 \in BOOLEAN}
    \cup {[BaseX EXCEPT !.thumb = th, !.frames = fr, !.dl_main = d2] :
            th \in BOOLEAN, fr \in {{}, {1}, 1..MaxFrames}, d2 \in BOOLEAN}
    \cup {[BaseX EXCEPT !.thumb = th, !.dl_main = d2, !.engine = e,
                        !.clip = [i \in DOMAIN Strategies |->
                                     IF i = k THEN "ok" ELSE "raise"]] :
            th \in BOOLEAN, d2 \in BOOLEAN, k \in {0, Len(Strategies)},
            e \in {JsonArray(<<GoodRecipe>>), JsonArray(<<GoodRecipe, GoodRecipe>>)}}

\* the clip downloads: the first k - 1 strategies fail in one way, strategy k
\* succeeds; or all fail, the last one in its own way
ClipInputs ==
    {[BaseX EXCEPT !.clip = [i \in DOMAIN Strategies |->
                                IF i < k THEN f ELSE "ok"]] :
        k \in DOMAIN Strategies, f \in ClipFailures}
    \cup {[BaseX EXCEPT !.clip = [i \in DOMAIN Strategies |->
                                    IF i < Len(Strategies) THEN f ELSE f2]] :
            f \in ClipFailures, f2 \in ClipFailures}

\* the engine's answer, the page fetch, the validator and the database
EngineInputs ==
    {[BaseX EXCEPT !.engine = e] : e \in Answers}
    \cup {[BaseX EXCEPT !.engine = JsonArray(<<[GoodRecipe EXCEPT !.ingredients = f]>>),
                        !.lax = TRUE] :
            f \in {ListField(<<Elem("obj", "num", "absent")>>),
                   ListField(<<Elem("obj", "list", "absent")>>)}}
    \cup {[BaseX EXCEPT !.persist = ps, !.html = h] : ps \in PersistOutcomes, h \in BOOLEAN}

AcqInputs == TierInputs \cup ImageInputs \cup EngineInputs \cup ClipInputs

\* the requests that feed the candidate lifecycle
LiteInputs ==
    {[BaseX EXCEPT !.engine = e, !.thumb = th, !.frames = fr] :
        e \in {JsonArray(<<GoodRecipe>>), JsonArray(<<GoodRecipe, GoodRecipe>>)},
        th \in BOOLEAN, fr \in {{}, 1..MaxFrames}}

\* the candidates the client holds
CandidatePool == {p \in known : InCandidates(p)}

\* one recipe of a finalize-multi payload
MultiItems ==
    {[assigned |-> a, create |-> c] :
        a \in known \cup {NoPath}, c \in {"ok", "invalid", "commit2"}}

\* ------------------------------------------------- chunk_audio in detail
\* chunk_audio(file_path, max_size_mb = 24) on a file of size megabytes whose
\* recording lasts total_ms. A part is [path, start, stop, per]: it runs from
\* start / per to stop / per milliseconds (chunk_ms = total_ms / num_chunks is
\* kept exact by counting in units of 1 / num_chunks ms).
max_size_mb == 24

\* (a count that would round down)
num_chunks_floor(size) == size \div max_size_mb

\* num_chunks = math.ceil(file_size_mb / max_size_mb)
num_chunks(size) ==
    IF size % max_size_mb = 0 THEN size \div max_size_mb
    ELSE size \div max_size_mb + 1

\* stop is min((i + 1) * chunk_ms, total_ms)
chunk_audio_parts(size, total_ms) ==
    IF size <= max_size_mb
    THEN <<[path |-> AudioFile, start |-> 0, stop |-> total_ms, per |-> 1]>>
    ELSE LET n == num_chunks(size)
         IN [k \in 1..n |->
                [path |-> ChunkFile(k),
                 start |-> (k - 1) * total_ms,
                 stop |-> IF k * total_ms <= n * total_ms THEN k * total_ms
                          ELSE n * total_ms,
                 per |-> n]]

\* the audio tier of scrape_ai (lines 155-162) taken one call at a time;
\* heard: whether llm.transcribe_audio gave text for the chunk
audio_chunk ==
    /\ obs.au.stage = "downloaded"
    /\ obs' = [obs EXCEPT !.au.stage = "chunked",
                          !.au.chunks = chunk_audio_parts(obs.au.size, obs.au.total_ms)]
    /\ UNCHANGED <<db, images_dir, candidates_dir, tasks, done, known, nextId, resp,
                   threads, unique_source_url>>

audio_transcribe(heard) ==
    /\ obs.au.stage = "chunked"
    /\ Len(obs.au.texts) < Len(obs.au.chunks)
    /\ obs' = [obs EXCEPT !.au.texts =
                  Append(@, [of |-> obs.au.chunks[Len(@) + 1].path, heard |-> heard])]
    /\ UNCHANGED <<db, images_dir, candidates_dir, tasks, done, known, nextId, resp,
                   threads, unique_source_url>>

audio_join ==
    /\ obs.au.stage = "chunked"
    /\ Len(obs.au.texts) = Len(obs.au.chunks)
    /\ obs' = [obs EXCEPT !.au.stage = "joined", !.au.transcript = obs.au.texts]
    /\ UNCHANGED <<db, images_dir, candidates_dir, tasks, done, known, nextId, resp,
                   threads, unique_source_url>>

\* ------------------------------------------------------- specifications
Init ==
    /\ db = <<>>
    /\ images_dir = {}
    /\ candidates_dir = {}
    /\ tasks = {}
    /\ done = NoTask
    /\ known = {}
    /\ nextId = 1
    /\ resp = NoResp
    /\ obs = NoObs
    /\ threads = <<>>
    /\ unique_source_url \in BOOLEAN

Upload == \E outcome \in {"ok", "open_fails", "copy_fails"} : upload_temp_image(outcome)

CleanupImages ==
    \E files \in {known, CandidatePool} : \E keep \in known \cup {NoPath} :
        cleanup_images_endpoint(files, keep)

FinalizeScrape ==
    \E recipe_id \in 1..MaxRecipes : \E chosen_image \in known \cup {ThumbnailUrl} :
        \E candidates_to_cleanup \in {known, {}} : \E mv \in BOOLEAN :
            finalize_scrape(recipe_id, chosen_image, candidates_to_cleanup, mv)

FinalizeMultiScrape ==
    \E source_url \in Urls :
        \/ \E i1 \in MultiItems : finalize_multi_scrape(<<i1>>, source_url)
        \/ \E i1 \in {i \in MultiItems : i.create = "ok"} : \E i2 \in MultiItems :
               finalize_multi_scrape(<<i1, i2>>, source_url)

Run == \E task \in tasks : \E gen \in BOOLEAN : RunTask(task, gen)

Scrape ==
    \E url \in Urls : \E page \in Pages : \E dl \in BOOLEAN :
        \E persist \in PersistOutcomes \cup {"invalid"} :
            scrape_recipe(url, scrape_with_library(page), dl, persist)

ScrapeAiLite == \E url \in Urls : \E x \in LiteInputs : scrape_ai(url, x)

ScrapeAi ==
    \/ \E url \in Urls : \E x \in AcqInputs : scrape_ai(url, x)
    \/ \E url \in {UpperHostUrl, PathOnlyUrl} : scrape_ai(url, BaseX)

\* the candidate lifecycle
Next ==
    \/ Upload
    \/ CleanupImages
    \/ FinalizeScrape
    \/ FinalizeMultiScrape
    \/ Run
    \/ ScrapeAiLite

Spec == Init /\ [][Next]_vars

\* acquisition
NextAcq ==
    \/ Scrape
    \/ ScrapeAi

SpecAcq == Init /\ [][NextAcq]_vars

\* handlers and tasks in flight together: the state a /scrape-ai of a video
\* leaves (one recipe stored with its thumbnail, the frames as candidates, the
\* template task queued), then reads, finalize requests and background tasks
\* step by step
VideoUrl == [host |-> "youtube.com", path |-> "plain"]

InitConc ==
    /\ unique_source_url \in BOOLEAN
    /\ \E g \in {ai_gather(VideoUrl, BaseX, 1)} :
       \E o \in {ai_outcome(VideoUrl, BaseX, g, <<>>, 1)} :
           /\ db = o.db
           /\ images_dir = o.image_files
           /\ candidates_dir = g.cand_files
           /\ tasks = o.task
           /\ done = NoTask
           /\ known = Range(o.candidates)
           /\ nextId = o.next
           /\ resp = NoResp
           /\ obs = NoObs
           /\ threads = <<>>

ReadRecipe == \E recipe_id \in 1..MaxRecipes : read_recipe(recipe_id)

TemplateBegin == \E task \in tasks : template_begin(task)

TemplateEnd == \E i \in DOMAIN threads : \E gen \in BOOLEAN : template_end(i, gen)

FinalizeBegin ==
    \E recipe_id \in 1..MaxRecipes : \E chosen_image \in known :
        \E candidates_to_cleanup \in {known, {}} :
            finalize_begin(recipe_id, chosen_image, candidates_to_cleanup)

FinalizeMove == \E i \in DOMAIN threads : \E mv \in BOOLEAN : finalize_move(i, mv)

FinalizeCommit == \E i \in DOMAIN threads : finalize_commit(i)

RunCleanup == \E task \in tasks : task.type # "template" /\ RunTask(task, FALSE)

NextConc ==
    \/ ReadRecipe
    \/ TemplateBegin
    \/ TemplateEnd
    \/ FinalizeBegin
    \/ FinalizeMove
    \/ FinalizeCommit
    \/ RunCleanup

SpecConc == InitConc /\ [][NextConc]_vars

\* ================================================================ claims
\* A request step is a step that changes resp.seq; resp and obs describe the
\* last request until the next one.

C2_CleanupDeletesScratch ==
    (done.type = "cleanup" /\ done.origin = "cleanup_images") =>
        \A f \in done.files :
            (InCandidates(f) /\ f # done.keep) => basename(f) \notin candidates_dir

\* ---- C3
\* C3: once the cleanup task queued by /finalize-scrape has run, no rejected
\* candidate (a listed candidate other than the chosen one) is left in the
\* candidates directory.
C3_RejectedCandidatesDeleted ==
    (done.type = "cleanup" /\ done.origin = "finalize_scrape") =>
        \A f \in done.files \ {done.keep} :
            InCandidates(f) => basename(f) \notin candidates_dir

\* ---- C4
\* C4: after a successful finalize (either endpoint) whose chosen candidate was a
\* file of the candidates directory, that file is no longer there.
C4_FinalizeMoves ==
    (resp.op \in {"finalize_scrape", "finalize_multi"} /\ resp.status = "success"
     /\ obs.existed) => basename(obs.chosen) \notin candidates_dir

\* ---- C5
\* C5: for a video/audio source no request ends with an error raised inside a
\* transcript tier; captions that give nothing lead to the audio tier, and an
\* audio tier that gives no text leads to the description fallback.
C5_TierFallthrough ==
    (resp.op = "scrape_ai" /\ obs.video) =>
        /\ obs.raised # "tier"
        /\ (obs.audio \in {"no_text", "raised"} => obs.source = "description")

\* ---- C6
\* C6: every ingredient and every instruction of every returned draft is a flat
\* string.
C6_SanitizedIsFlat ==
    \A i \in DOMAIN resp.drafts :
        /\ \A j \in DOMAIN resp.drafts[i].ingredients :
               resp.drafts[i].ingredients[j].shape = "str"
        /\ \A j \in DOMAIN resp.drafts[i].instructions :
               resp.drafts[i].instructions[j].shape = "str"

\* ---- C7
\* a recipe object with title, list-shaped ingredients and list-shaped instructions
well_formed(r) ==
    r.title /\ r.ingredients.shape = "list" /\ r.instructions.shape = "list"

\* an answer that is JSON and whose recipe objects are all well formed
valid_answer(raw) ==
    \/ raw.t = "obj" /\ well_formed(raw.r)
    \/ raw.t = "arr" /\ raw.rs # <<>> /\ \A i \in DOMAIN raw.rs : well_formed(raw.rs[i])

\* C7: on both paths, when the engine's answer is not valid JSON, lacks a
\* required key or has a non-list ingredients/instructions, the request fails,
\* stores no recipe and returns no draft.
C7_InvalidAnswerFails ==
    (resp.op = "scrape_ai" /\ obs.engine_called /\ ~valid_answer(obs.engine)) =>
        /\ resp.status = "error"
        /\ obs.created = 0
        /\ resp.drafts = <<>>

\* ---- C8
\* C8: /scrape and /scrape-ai answer success only when a recipe was extracted
\* and its record created with nothing raised; a request in which something
\* raised ends with an HTTP error carrying a non-empty reason; a request whose
\* extractor gave no data does not answer success.
C8_FailuresSurface ==
    resp.op \in {"scrape", "scrape_ai"} =>
        /\ resp.status = "success" =>
              /\ obs.created = 1 /\ obs.raised = "none"
              /\ resp.recipe \in DOMAIN db
              /\ resp.op = "scrape" => obs.lib # "none"
              /\ resp.op = "scrape_ai" => obs.engine_called /\ obs.engine.t = "arr"
        /\ obs.raised # "none" =>
              resp.status = "error" /\ resp.code >= 400 /\ resp.reason # ""
        /\ (resp.op = "scrape" /\ obs.lib = "none") => resp.status = "ai_required"
        /\ (resp.op = "scrape_ai" /\ obs.engine_called
            /\ obs.engine.t \in {"error", "notjson"}) => resp.status = "error"

\* an exception outside the handler's try blocks ended the request with HTTP 500
C8_Witness ==
    /\ resp.op = "scrape_ai" /\ obs.raised = "ValidationError"
    /\ resp.status = "error" /\ resp.code = 500 /\ resp.reason # ""

\* ---- C9
\* the number of recipe objects in an answer
recipe_count(raw) ==
    CASE raw.t = "arr" -> Len(raw.rs)
      [] raw.t = "obj" -> IF num_keys(raw.r) > 0 THEN 1 ELSE 0
      [] OTHER -> 0

\* C9: an answer holding exactly one recipe takes the single-recipe path; an
\* answer holding more than one is returned as multi_recipe with one draft per
\* recipe and the candidate pool, with no record created.
C9_BranchByRecipeCount ==
    (resp.op = "scrape_ai" /\ obs.branch # "none") =>
        /\ recipe_count(obs.engine) = 1 => obs.branch = "single"
        /\ recipe_count(obs.engine) > 1 =>
              /\ obs.branch = "multi"
              /\ obs.raised = "none" =>
                    /\ resp.status = "multi_recipe"
                    /\ Len(resp.drafts) = recipe_count(obs.engine)
                    /\ obs.created = 0

\* ---- C10
\* C10: when the library extractor returns a recipe, /scrape creates exactly one
\* record, queues its template task, answers success with that recipe and no
\* image candidates, and does not call the engine.
C10_LibrarySuccess ==
    (resp.op = "scrape" /\ obs.lib # "none") =>
        /\ resp.status = "success"
        /\ obs.created = 1
        /\ resp.recipe \in DOMAIN db
        /\ TemplateTask(resp.recipe) \in tasks
        /\ resp.image_candidates = <<>>
        /\ ~obs.engine_called

\* ---- C11
\* C11: a /scrape request whose library extractor returns nothing answers
\* ai_required, leaves the recipes table and the image directory as they were,
\* queues no background task and does not call the engine; the engine is called
\* only by a /scrape-ai request.
C11_NotSupportedAsksForAi ==
    [][resp'.seq # resp.seq =>
         /\ (resp'.op = "scrape" /\ obs'.lib = "none") =>
               /\ resp'.status = "ai_required"
               /\ db' = db
               /\ tasks' = tasks
               /\ images_dir' = images_dir
               /\ ~obs'.engine_called
         /\ obs'.engine_called => resp'.op = "scrape_ai"]_vars

\* the library gave nothing for a second request, after a record was stored
C11_Witness ==
    /\ resp.op = "scrape" /\ obs.lib = "none" /\ resp.status = "ai_required"
    /\ obs.created = 0 /\ Len(db) = 1 /\ resp.seq = 2

\* ---- C12
\* C12: whatever the number and interleaving of template backfill tasks (queued
\* at creation and by every read while the template is absent), the template of
\* a recipe is written at most once.
C12_TemplateWrittenOnce ==
    \A id \in DOMAIN db : db[id].writes <= 1

\* ---- C13
\* C13: two finalize-scrape requests for the same recipe are never under way
\* together, and once two such requests have both answered the image reference
\* and the two directories are what one of the two serial orders leaves.
C13_FinalizeExclusive ==
    /\ \A i, j \in DOMAIN threads :
           (i # j /\ threads[i].kind = "finalize" /\ threads[j].kind = "finalize")
               => threads[i].recipe # threads[j].recipe
    /\ (resp.op = "finalize_scrape" /\ obs.peer # <<>> /\ done.type # "cleanup") =>
           LET h == obs.peer[1] IN
           Snapshot(db, resp.recipe, candidates_dir, images_dir)
               \in {finalize_serial(finalize_serial(h.pre, h.first), h.second),
                    finalize_serial(finalize_serial(h.pre, h.second), h.first)}

\* ---- C14
\* C14: a /scrape-ai request for a video/audio source leaves no temporary audio
\* file and no temporary caption file behind, whether it succeeded, lost a tier
\* or ended with an exception.
C14_NoTempFilesLeft ==
    (resp.op = "scrape_ai" /\ obs.video) => obs.temp = {}

\* ---- C15
\* C15: a /scrape-ai request whose engine call was rejected for rate limiting
\* ends with an error whose reason is not the reason reported for an answer
\* that is no JSON, nor the one reported for another failure of the call.
C15_RateLimitDistinguished ==
    (resp.op = "scrape_ai" /\ obs.engine_called /\ obs.engine = RateLimited) =>
        /\ resp.status = "error"
        /\ resp.reason \notin {engine_failure_reason(obs.video, NotJson),
                               engine_failure_reason(obs.video, ApiError)}

C17_ClassifiedByHost ==
    resp.op = "scrape_ai" => (obs.video <=> lower(obs.url.host) = "youtube.com")

\* ---- C18
\* C18: for every page scrape_with_library returns a value of its own (None or
\* a recipe) and never lets an exception through, and a recipe it returns has a
\* non-empty ingredient list and a non-empty instruction list.
C18_LibraryExtractorTotal ==
    resp.op = "scrape" =>
        /\ obs.lib \in LibOutcomes
        /\ obs.lib # "recipe_no_instructions"
        /\ resp.status = "success" =>
              db[resp.recipe].has_instr /\ db[resp.recipe].wanted >= 1

\* ---- C19
\* C19: acquiring a source URL that a stored recipe already carries is not
\* rejected as a duplicate: no request (/scrape, /scrape-ai, finalize of several
\* drafts of one source) ends with the database refusing the record because of
\* its source_url.
C19_SameSourceAllowed ==
    obs.raised # "IntegrityError"

\* ---- C20
\* C20: a persisted recipe's image is never deleted under it: every recipe whose
\* image reference is a local permanent path refers to a file that exists in
\* the permanent directory, whatever finalize-scrape calls, cleanup-images
\* calls and deferred cleanup tasks have run, in whatever order.
C20_ReferencedImageKept ==
    \A id \in DOMAIN db :
        db[id].image_url.dir = "perm" => basename(db[id].image_url) \in images_dir

\* ---- C21
\* C21: finalize-multi-scrape is all-or-nothing: a call that ends with HTTP 500
\* has persisted no recipe of its batch, copied no candidate into the permanent
\* directory and queued no task; any other call has persisted every recipe of
\* the batch and reports created_count equal to the batch size.
C21_MultiAllOrNothing ==
    resp.op = "finalize_multi" =>
        IF resp.code = 500
        THEN obs.created = 0 /\ obs.copies = 0
        ELSE obs.created = obs.batch /\ resp.created_count = obs.batch

C23_OrderedRetry ==
    (resp.op = "scrape_ai" /\ obs.capture # "none") =>
        /\ \A i \in DOMAIN obs.clip.tried : obs.clip.tried[i] = Strategies[i]
        /\ \A k \in DOMAIN Strategies :
              k <= Len(obs.clip.tried)
                  <=> \A j \in 1..(k - 1) : obs.outcomes[j] \in ClipFailures
        /\ obs.clip.ok <=> \E k \in DOMAIN Strategies : obs.outcomes[k] = "ok"

C23_Witness ==
    /\ resp.op = "scrape_ai" /\ obs.capture = "clip"
    /\ obs.clip.tried = <<"android", "ios", "web">>
    /\ obs.outcomes[1] = "empty" /\ obs.outcomes[4] = "ok"

\* ---- C24
\* C24: failed strategies leave nothing behind: clip_path holds no file when a
\* strategy after the first starts, and when every strategy has failed no clip
\* file remains after capture_frames has returned.
C24_FailedStrategiesLeaveNothing ==
    (resp.op = "scrape_ai" /\ obs.capture # "none") =>
        /\ \A i \in DOMAIN obs.clip.files : obs.clip.files[i] = "none"
        /\ ~obs.clip.ok => obs.clip_left = "none"

\* ---- C25
\* The sources of the transcript in the order scrape_ai consults them, and the
\* one a transcript came from.
TierOrder == <<"link", "captions", "audio", "description">>
tier_index(t) == CHOOSE i \in DOMAIN TierOrder : TierOrder[i] = t
tier_of(source) == IF source \in {"audio", "newlines"} THEN "audio" ELSE source

\* the tiers were walked in order and the text comes from the last one walked
walked_in_order ==
    /\ obs.tiers # <<>>
    /\ \A i, j \in DOMAIN obs.tiers :
          i < j => tier_index(obs.tiers[i]) < tier_index(obs.tiers[j])
    /\ tier_of(obs.source) = obs.tiers[Len(obs.tiers)]

C26_OneCoercionRule ==
    resp.op = "scrape_ai" =>
        \A i \in DOMAIN obs.coerced :
            LET e == obs.coerced[i].raw
            IN obs.coerced[i].got.via =
                  (CASE e.shape = "list" -> "join"
                     [] e.shape = "obj" /\ e.text # "absent" -> "text"
                     [] e.shape = "obj" /\ e.text = "absent" /\ e.name # "absent" -> "name"
                     [] OTHER -> "str")

\* ------------------------------------------------ the audio tier alone
\* file sizes around the multiples of the threshold, and two durations, one of
\* them not a multiple of the chunk counts
Sizes == {k * max_size_mb + d : k \in 0..(MaxChunks - 1), d \in {1, 12, max_size_mb}}
Durations == {6, 7}

InitChunk ==
    /\ db = <<>>
    /\ images_dir = {}
    /\ candidates_dir = {}
    /\ tasks = {}
    /\ done = NoTask
    /\ known = {}
    /\ nextId = 1
    /\ resp = NoResp
    /\ threads = <<>>
    /\ unique_source_url \in BOOLEAN
    /\ \E size \in Sizes : \E total_ms \in Durations :
          obs = [NoObs EXCEPT !.au.stage = "downloaded", !.au.size = size,
                              !.au.total_ms = total_ms]

TranscribeAudio == \E heard \in BOOLEAN : audio_transcribe(heard)

NextChunk ==
    \/ audio_chunk
    \/ TranscribeAudio
    \/ audio_join

SpecChunk == InitChunk /\ [][NextChunk]_vars

\* ---- C27
\* C27: a file not larger than the threshold is returned as the single chunk
\* (the file itself); a larger one gives exactly ceil(size / threshold) chunks
\* of equal duration, contiguous, not overlapping, covering the recording in
\* increasing time order; the transcript is the chunk transcripts in chunk
\* index order.
C27_Chunking ==
    obs.au.stage \in {"chunked", "joined"} =>
        LET c == obs.au.chunks
            n == Len(c)
        IN /\ obs.au.size <= max_size_mb =>
                 c = <<[path |-> AudioFile, start |-> 0, stop |-> obs.au.total_ms,
                        per |-> 1]>>
           /\ obs.au.size > max_size_mb =>
                 /\ n * max_size_mb >= obs.au.size
                 /\ (n - 1) * max_size_mb < obs.au.size
                 /\ \A i \in 1..n : /\ c[i].per = n
                                    /\ c[i].stop - c[i].start = obs.au.total_ms
                                    /\ c[i].path = ChunkFile(i)
                 /\ c[1].start = 0
                 /\ \A i \in 1..(n - 1) : c[i].stop = c[i + 1].start
                 /\ c[n].stop = n * obs.au.total_ms
           /\ obs.au.stage = "joined" =>
                 /\ Len(obs.au.transcript) = n
                 /\ \A i \in 1..n : obs.au.transcript[i].of = c[i].path

C27_Witness ==
    /\ obs.au.stage = "joined"
    /\ obs.au.size = max_size_mb + 1
    /\ obs.au.total_ms = 7
    /\ Len(obs.au.chunks) = 2
    /\ obs.au.chunks[2].start # obs.au.chunks[1].start

\* ---- C28
\* C28: after finalize-scrape has answered success the recipe's image reference
\* does not point into the candidates directory: it is a permanent path of an
\* existing file or a remote url, also when the chosen candidate was missing or
\* could not be moved.
C28_FinalizedImageNotScratch ==
    (resp.op = "finalize_scrape" /\ resp.status = "success") =>
        /\ db[resp.recipe].image_url.dir \in {"perm", "http"}
        /\ db[resp.recipe].image_url.dir = "perm" =>
              basename(db[resp.recipe].image_url) \in images_dir

\* ---- C29
\* C29: no untracked candidate files: every file an AI acquisition wrote into
\* the candidates directory is in the candidate list of its response or has
\* been deleted before the response; a frame replaced by the scraped page image
\* does not stay on disk outside the list.
C29_NoUntrackedCandidates ==
    resp.op = "scrape_ai" =>
        \A n \in obs.cand_files :
            n \in candidates_dir => Cand(n) \in Range(resp.image_candidates)

\* ---- C30
\* C30: a /scrape or /scrape-ai request that ends with an HTTP error or with
\* ai_required leaves the recipe store as it was: it has created no recipe, and
\* no recipe without its ingredients.
C30_FailureLeavesStoreUnchanged ==
    (resp.op \in {"scrape", "scrape_ai"} /\ resp.status \in {"error", "ai_required"}) =>
        /\ obs.created = 0
        /\ \A id \in DOMAIN db : db[id].ningr = db[id].wanted

====
